---- MODULE Spec2Model ----
(***************************************************************************)
(* Model of the file system call wrappers of sys/fs/syscalls.cpp: the      *)
(* address space guard (u_access_lock, u_access_begin/u_access_end), the   *)
(* argument validation of each wrapper and the vectored transfer engine    *)
(* do_iov.                                                                 *)
(*                                                                         *)
(* Every thread runs one system call at a time.  A system call is split    *)
(* into steps at the places where another thread can be scheduled: the     *)
(* request for the guard, the underlying operation, and every read of the  *)
(* descriptor array that do_iov makes from user memory.                    *)
(***************************************************************************)
EXTENDS Integers, Sequences, FiniteSets, TLC

(***************************************************************************)
(* Bounds of the model.                                                    *)
(***************************************************************************)
NThreads == 2        \* threads of the task issuing system calls
NPtrs == 2           \* user regions 1..NPtrs; pointer 0 is the null pointer
IOV_MAX == 3         \* <limits.h> IOV_MAX, scaled down
IovBatch == 2        \* iov.size() of std::array<iovec, 16>, scaled down
WordBits == 3        \* width of a long argument word (32), scaled down
MaxUserWrites == 1   \* overwrites of a descriptor by user code per call

(***************************************************************************)
(* Error numbers (errno.h) as they appear in the wrappers.                 *)
(***************************************************************************)
EPERM == 1
EINTR == 4
EIO == 5
EBADF == 9
EFAULT == 14
EINVAL == 22

Threads == 1..NThreads
Ptrs == 0..NPtrs

(* pointer arguments passed in Spec: the null pointer and region 1 *)
ConcPtrs == 0..1

PROT_READ == "r"
PROT_WRITE == "w"

(* _IOC_DIR(request) *)
IOC_NONE == 0
IOC_WRITE == 1
IOC_READ == 2

(* fcntl commands; F_GETFD stands for the commands without a lock argument *)
F_GETFD == 1
F_GETLK == 12
F_SETLK == 13
F_SETLKW == 14

VARIABLES
    guard,      \* holder of the address space guard, 0 when it is free
    aspace,     \* aspace[p]: permissions of user region p, {} when unmapped
    th          \* th[t]: the system call thread t is executing

vars == <<guard, aspace, th>>

(***************************************************************************)
(* A thread between system calls.  The fields are the arguments and the    *)
(* locals of the wrapper being executed, followed by a record of what the  *)
(* call has done so far.                                                   *)
(***************************************************************************)
Idle ==
    [pc |-> "idle",     \* position of the thread in the wrapper
     sc |-> "",         \* the wrapper entered from the system call table
     argp |-> 0,        \* the user pointer argument (path, buffer, argp)
     req |-> 0,         \* _IOC_DIR(request) of sc_ioctl, cmd of sc_fcntl
     off0 |-> 0,        \* high argument word of a 64 bit offset
     off1 |-> 0,        \* low argument word of a 64 bit offset
     args |-> <<>>,     \* the pointer arguments of a wrapper of several
     cap |-> TRUE,      \* task_capable(CAP_ADMIN)
     bufsiz |-> 0,      \* bufsiz of sc_statfs and sc_fstatfs
     len |-> 0,         \* len of sc_pread and sc_pwrite
     locked |-> FALSE,  \* the interruptible_lock of this call owns the guard
     \* do_iov
     umem |-> <<>>,     \* the descriptor array in user memory
     count |-> 0,
     uiov |-> 0,        \* entries the local pointer uiov has advanced by
     offset |-> 0,
     ret |-> 0,
     iov |-> <<>>,
     l |-> 0,
     i |-> 0,
     d |-> 0,
     \* what the call did
     res |-> 0,         \* the value returned
     line |-> 0,        \* line of the return statement taken
     opres |-> 0,       \* last result of the underlying operation
     nop |-> 0,         \* invocations of the underlying operation
     nval |-> 0,        \* validations (u_access_ok, u_strcheck) performed
     held0 |-> FALSE,   \* the thread held the guard when the call began
     took |-> FALSE,    \* the call was granted the guard
     vres |-> <<>>,     \* result of each validation of an argument
     fnret |-> 0,       \* ret at the last invocation of fn
     chk |-> <<>>,      \* entries of the current batch that passed line 51
     fnarg |-> <<>>,    \* batch handed to the last invocation of fn
     fnchk |-> <<>>,    \* chk at the last invocation of fn
     fnl |-> 0,         \* l at the last invocation of fn
     fnoff |-> 0,       \* offset handed to the last invocation of fn
     failent |-> <<>>,  \* the entry read at line 51 when line 52 returned
     writes |-> 0,      \* overwrites of the descriptor array during the call
     over |-> FALSE,    \* fn returned more than the batch it was given
     full |-> TRUE]     \* every fn so far transferred its whole batch

(***************************************************************************)
(* User Memory Validator (access.h, not part of the sources): a region is  *)
(* accessible when it is mapped with the requested permission; the null    *)
(* pointer is never mapped; a zero length region is trivially valid.       *)
(***************************************************************************)
u_access_ok(p, len, prot) ==
    \/ len = 0
    \/ p \in 1..NPtrs /\ prot \in aspace[p]

u_strcheck(p) == p \in 1..NPtrs /\ PROT_READ \in aspace[p]

u_address(p) == p \in 1..NPtrs

(***************************************************************************)
(* Leaving a wrapper: the value returned and the line of the return        *)
(* statement.  The destructor of the scoped interruptible_lock releases    *)
(* the guard if this call's lock owns it.                                  *)
(***************************************************************************)
Return(t, s, ln, val) ==
    /\ th' = [th EXCEPT ![t] = [s EXCEPT !.pc = "ret", !.res = val,
                                          !.line = ln, !.locked = FALSE]]
    /\ guard' = IF s.locked THEN 0 ELSE guard

(* The system call returns to user mode; the thread may issue another. *)
Finish(t) ==
    /\ th[t].pc = "ret"
    /\ th' = [th EXCEPT ![t] = Idle]
    /\ UNCHANGED <<guard, aspace>>

(***************************************************************************)
(* Address-Space Guard.  interruptible_lock::lock and u_access_begin       *)
(* (access.h, not part of the sources) block until the guard is free and   *)
(* take it, or return the interruption error with the guard not taken.     *)
(* A thread with pc = "lock" is inside one of the two.                     *)
(***************************************************************************)
(* wrappers none of which releases the guard when it leaves *)
ScopedNever(sc) == FALSE

Scoped(sc) == sc \notin {"sc_ioctl", "sc_fcntl"}

(* Where the wrapper continues once it has the guard. *)
AfterLock(sc) ==
    CASE sc \in {"sc_readv", "sc_writev", "sc_preadv", "sc_pwritev"} -> "iov_desc"
      [] sc \in {"sc_munmap", "sc_mprotect", "sc_mmap2"} -> "op"
      [] OTHER -> "check"

(* Line of "return r" after a failed lock() or u_access_begin(). *)
EintrLine(sc) ==
    CASE sc = "sc_chdir" -> 92
      [] sc = "sc_openat" -> 325
      [] sc = "sc_llseek" -> 255
      [] sc = "sc_ioctl" -> 231
      [] sc = "sc_fcntl" -> 151
      [] sc \in {"sc_readv", "sc_writev", "sc_preadv", "sc_pwritev"} -> 39
      [] sc = "sc_renameat" -> 359
      [] sc = "sc_stat" -> 381
      [] sc = "sc_mount" -> 307
      [] sc = "sc_umount2" -> 426
      [] sc = "sc_statfs" -> 395
      [] sc = "sc_fstatfs" -> 195
      [] sc = "sc_pread" -> 469
      [] sc = "sc_pwrite" -> 482
      [] OTHER -> 0

LockAcquire(t) ==
    /\ th[t].pc = "lock"
    /\ guard = 0
    /\ guard' = t
    /\ th' = [th EXCEPT ![t].pc = AfterLock(th[t].sc),
                        ![t].locked = Scoped(th[t].sc),
                        ![t].took = TRUE]
    /\ UNCHANGED aspace

LockInterrupted(t) ==
    /\ th[t].pc = "lock"
    /\ Return(t, th[t], EintrLine(th[t].sc), -EINTR)
    /\ UNCHANGED aspace

(* Entering a wrapper from the system call table. *)
Enter(t, s) ==
    /\ th[t].pc = "idle"
    /\ th' = [th EXCEPT ![t] = [s EXCEPT !.held0 = (guard = t)]]
    /\ UNCHANGED <<guard, aspace>>

(***************************************************************************)
(* Results of the underlying operations (fs.h, not part of the sources):   *)
(* an error number or a non-negative value.                                *)
(***************************************************************************)
OpResults == {-EBADF, 0, 1}

(***************************************************************************)
(* Wrappers of one path argument: lock, u_strcheck(path, PATH_MAX), the    *)
(* operation, return its result.                                           *)
(***************************************************************************)
sc_chdir(t) ==
    /\ th[t].pc = "idle"
    /\ \E path \in ConcPtrs :
        Enter(t, [Idle EXCEPT !.pc = "lock", !.sc = "sc_chdir", !.argp = path])

sc_openat(t) ==
    /\ th[t].pc = "idle"
    /\ \E path \in ConcPtrs :
        Enter(t, [Idle EXCEPT !.pc = "lock", !.sc = "sc_openat", !.argp = path])

PathWrappers == {"sc_chdir", "sc_openat"}

PathEfaultLine(sc) == IF sc = "sc_chdir" THEN 94 ELSE 327

PathOpLine(sc) == IF sc = "sc_chdir" THEN 95 ELSE 328

PathCheck(t) ==
    LET s == th[t] IN
    /\ s.pc = "check"
    /\ s.sc \in PathWrappers
    /\ IF ~u_strcheck(s.argp)
       THEN Return(t, [s EXCEPT !.nval = @ + 1, !.vres = <<FALSE>>],
                   PathEfaultLine(s.sc), -EFAULT)
       ELSE /\ th' = [th EXCEPT ![t].pc = "op", ![t].nval = @ + 1,
                                ![t].nop = @ + 1, ![t].vres = <<TRUE>>]
            /\ UNCHANGED guard
    /\ UNCHANGED aspace

PathOpReturn(t) ==
    LET s == th[t] IN
    /\ s.pc = "op"
    /\ s.sc \in PathWrappers
    /\ \E r \in OpResults :
          Return(t, [s EXCEPT !.opres = r], PathOpLine(s.sc), r)
    /\ UNCHANGED aspace

(***************************************************************************)
(* 64 bit offsets passed as two argument words of type long.  A word is    *)
(* given by its bit pattern 0..2^WordBits-1; an off_t has 2*WordBits bits. *)
(* (off_t)off0 << 32 | off1 converts both words to off_t, which sign       *)
(* extends them, shifts the first and ors the two.                         *)
(***************************************************************************)
Pow2(n) == 2 ^ n

WordMod == Pow2(WordBits)

OffMod == Pow2(2 * WordBits)

(* bit pattern of the off_t a long with bit pattern w converts to *)
SignExtend(w) ==
    IF w >= Pow2(WordBits - 1) THEN w + (WordMod - 1) * WordMod ELSE w

RECURSIVE BitOr(_, _)
BitOr(a, b) ==
    IF a = 0 THEN b
    ELSE IF b = 0 THEN a
    ELSE (IF a % 2 = 1 \/ b % 2 = 1 THEN 1 ELSE 0) + 2 * BitOr(a \div 2, b \div 2)

(* value of the off_t with bit pattern p *)
ToSigned(p) == IF p >= OffMod \div 2 THEN p - OffMod ELSE p

(* bit pattern of the off_t with value v *)
ToPattern(v) == v % OffMod

Reassemble(off0, off1) ==
    ToSigned(BitOr((SignExtend(off0) * WordMod) % OffMod, SignExtend(off1)))

(* argument words the model passes *)
OffWords == {1, Pow2(WordBits - 1)}

(* argument words passed in Spec *)
ConcWords == {0, Pow2(WordBits - 1)}

(***************************************************************************)
(* sc_llseek                                                               *)
(***************************************************************************)
sc_llseek(t) ==
    /\ th[t].pc = "idle"
    /\ \E off0 \in ConcWords, off1 \in ConcWords, result \in ConcPtrs :
        Enter(t, [Idle EXCEPT !.pc = "lock", !.sc = "sc_llseek", !.argp = result,
                              !.off0 = off0, !.off1 = off1])

LlseekCheck(t) ==
    LET s == th[t] IN
    /\ s.pc = "check"
    /\ s.sc = "sc_llseek"
    /\ IF ~u_access_ok(s.argp, 1, PROT_WRITE)
       THEN Return(t, [s EXCEPT !.nval = @ + 1, !.vres = <<FALSE>>], 257, -EFAULT)
       ELSE /\ th' = [th EXCEPT ![t].pc = "op", ![t].nval = @ + 1,
                                ![t].nop = @ + 1, ![t].vres = <<TRUE>>,
                                ![t].offset = Reassemble(s.off0, s.off1)]
            /\ UNCHANGED guard
    /\ UNCHANGED aspace

LlseekOpReturn(t) ==
    LET s == th[t] IN
    /\ s.pc = "op"
    /\ s.sc = "sc_llseek"
    /\ \E r \in OpResults :
          IF r < 0
          THEN Return(t, [s EXCEPT !.opres = r], 260, -1)
          ELSE Return(t, [s EXCEPT !.opres = r], 262, 0)
    /\ UNCHANGED aspace

(***************************************************************************)
(* sc_ioctl and sc_fcntl: u_access_begin pins the address space,           *)
(* u_access_end unpins it.                                                 *)
(***************************************************************************)
sc_ioctl(t) ==
    /\ th[t].pc = "idle"
    /\ \E dir \in {IOC_NONE, IOC_WRITE, IOC_READ, IOC_READ + IOC_WRITE} :
       \E argp \in (IF dir = IOC_NONE THEN {0} ELSE ConcPtrs) :
        Enter(t, [Idle EXCEPT !.sc = "sc_ioctl", !.req = dir, !.argp = argp,
                     !.pc = IF dir \in {IOC_READ, IOC_WRITE} THEN "lock" ELSE "op",
                     !.nop = IF dir \in {IOC_READ, IOC_WRITE} THEN 0 ELSE 1])

IoctlCheck(t) ==
    LET s == th[t] IN
    /\ s.pc = "check"
    /\ s.sc = "sc_ioctl"
    /\ IF ~u_access_ok(s.argp, 1,
                       IF s.req = IOC_READ THEN PROT_WRITE ELSE PROT_READ)
       THEN Return(t, [s EXCEPT !.nval = @ + 1, !.vres = <<FALSE>>], 234, -EFAULT)
       ELSE /\ th' = [th EXCEPT ![t].pc = "op", ![t].nval = @ + 1,
                                ![t].nop = @ + 1, ![t].vres = <<TRUE>>]
            /\ UNCHANGED guard
    /\ UNCHANGED aspace

(* return ioctl(fd, request, argp); the switch after it is never executed *)
IoctlOpReturn(t) ==
    LET s == th[t] IN
    /\ s.pc = "op"
    /\ s.sc = "sc_ioctl"
    /\ \E r \in OpResults : Return(t, [s EXCEPT !.opres = r], 236, r)
    /\ UNCHANGED aspace

LockCmds == {F_GETLK, F_SETLK, F_SETLKW}

sc_fcntl(t) ==
    /\ th[t].pc = "idle"
    /\ \E cmd \in LockCmds \cup {F_GETFD} :
       \E arg \in (IF cmd \in LockCmds THEN ConcPtrs ELSE {0}) :
        Enter(t, [Idle EXCEPT !.sc = "sc_fcntl", !.req = cmd, !.argp = arg,
                     !.pc = IF cmd \in LockCmds THEN "lock" ELSE "op",
                     !.nop = IF cmd \in LockCmds THEN 0 ELSE 1])

FcntlCheck(t) ==
    LET s == th[t] IN
    /\ s.pc = "check"
    /\ s.sc = "sc_fcntl"
    /\ IF ~u_access_ok(s.argp, 1, PROT_WRITE)
       THEN Return(t, [s EXCEPT !.nval = @ + 1, !.vres = <<FALSE>>], 153, -EFAULT)
       ELSE /\ th' = [th EXCEPT ![t].pc = "op", ![t].nval = @ + 1,
                                ![t].nop = @ + 1, ![t].vres = <<TRUE>>]
            /\ UNCHANGED guard
    /\ UNCHANGED aspace

(* ret = fcntl(fd, cmd, arg); u_access_end() for the lock commands; return *)
FcntlOpReturn(t) ==
    LET s == th[t] IN
    /\ s.pc = "op"
    /\ s.sc = "sc_fcntl"
    /\ \E r \in OpResults :
          /\ th' = [th EXCEPT ![t] = [s EXCEPT !.pc = "ret", !.opres = r,
                                               !.res = r, !.line = 162]]
          /\ guard' = IF s.req \in LockCmds THEN 0 ELSE guard
    /\ UNCHANGED aspace

(***************************************************************************)
(* Operations that change the address space (mmap.h, not part of the       *)
(* sources).  They take the same guard before they alter the map.          *)
(***************************************************************************)
sc_munmap(t) ==
    /\ th[t].pc = "idle"
    /\ \E p \in ConcPtrs \ {0} :
        Enter(t, [Idle EXCEPT !.pc = "lock", !.sc = "sc_munmap", !.argp = p])

sc_mprotect(t) ==
    /\ th[t].pc = "idle"
    /\ \E p \in ConcPtrs \ {0} :
        Enter(t, [Idle EXCEPT !.pc = "lock", !.sc = "sc_mprotect", !.argp = p])

sc_mmap2(t) ==
    /\ th[t].pc = "idle"
    /\ \E p \in ConcPtrs \ {0} :
        Enter(t, [Idle EXCEPT !.pc = "lock", !.sc = "sc_mmap2", !.argp = p])

(* the permissions region p can have after the operation *)
MapResults(sc, p) ==
    CASE sc = "sc_munmap" -> {{}}
      [] sc = "sc_mmap2" -> {{PROT_READ, PROT_WRITE}}
      [] OTHER -> IF aspace[p] = {} THEN {{}}
                  ELSE {{PROT_READ}, {PROT_READ, PROT_WRITE}}

MapOpReturn(t) ==
    LET s == th[t] IN
    /\ s.pc = "op"
    /\ s.sc \in {"sc_munmap", "sc_mprotect", "sc_mmap2"}
    /\ \E prot \in MapResults(s.sc, s.argp) :
          aspace' = [aspace EXCEPT ![s.argp] = prot]
    /\ Return(t, s, 0, 0)

(***************************************************************************)
(* do_iov                                                                  *)
(***************************************************************************)
IovCalls == {"sc_readv", "sc_writev", "sc_preadv", "sc_pwritev"}

(* the prot argument each caller passes *)
IovProt(sc) == IF sc \in {"sc_readv", "sc_preadv"} THEN PROT_WRITE ELSE PROT_READ

(* descriptors: a null entry of non-zero length, entries in region 1 and
   an entry in region 2 *)
IovEntries ==
    {[iov_base |-> 0, iov_len |-> 2], [iov_base |-> 1, iov_len |-> 1],
     [iov_base |-> 1, iov_len |-> 2], [iov_base |-> 2, iov_len |-> 1]}

(* descriptor arrays of at most n entries *)
Vectors(n) == UNION {[1..k -> IovEntries] : k \in 0..n}

Min(a, b) == IF a < b THEN a ELSE b

RECURSIVE SumNonNull(_)
SumNonNull(v) ==
    IF v = <<>> THEN 0
    ELSE (IF Head(v).iov_base = 0 THEN 0 ELSE Head(v).iov_len) + SumNonNull(Tail(v))

RECURSIVE SumLen(_)
SumLen(v) == IF v = <<>> THEN 0 ELSE Head(v).iov_len + SumLen(Tail(v))

(* const auto c = std::min<size_t>(count, iov.size()) *)
BatchCount(s) == Min(s.count, IovBatch)

(* a do_iov that reads uiov[0] for every i *)
CurFirst(s) == s.umem[s.uiov + 1]

(* uiov[i] as user memory holds it now *)
Cur(s) == s.umem[s.uiov + s.i + 1]

(* top of the while loop, lines 44-48 *)
StartBatch(s) ==
    [s EXCEPT !.iov = <<>>, !.l = 0, !.d = 0, !.i = 0, !.chk = <<>>,
              !.pc = IF BatchCount(s) > 0 THEN "iov_null" ELSE "iov_fn"]

(* ++i and the loop test of line 48 *)
NextEntry(s) ==
    [s EXCEPT !.i = @ + 1,
              !.pc = IF s.i + 1 < BatchCount(s) THEN "iov_null" ELSE "iov_fn"]

(* a do_iov that accepts every count that is not negative *)
CountInvalidNeg(count) == count < 0

(* (count < 0) || (count > IOV_MAX) *)
CountInvalid(count) == count < 0 \/ count > IOV_MAX

(* lines 35-36 and the request for the guard of lines 37-38 *)
DoIovCall(t, s0) ==
    IF CountInvalid(s0.count)
    THEN Enter(t, [s0 EXCEPT !.pc = "ret", !.res = -EINVAL, !.line = 36])
    ELSE Enter(t, [s0 EXCEPT !.pc = "lock"])

(* the arguments: a count, the descriptor array and the pointer to it *)
IovArgs(V) ==
    {[Idle EXCEPT !.count = Len(v), !.umem = v, !.argp = p] :
        v \in V, p \in 0..1}
    \cup {[Idle EXCEPT !.count = n, !.argp = 1] : n \in {-1, IOV_MAX + 1}}

(* do_iov(fd, iov, count, -1, fn, prot) *)
StreamCall(t, name, A) ==
    /\ th[t].pc = "idle"
    /\ \E a \in A : DoIovCall(t, [a EXCEPT !.sc = name, !.offset = -1])

(* a wrapper that accepts every offset *)
NegativeOffsetNever(offset) == FALSE

(* if (offset < 0) of the positioned calls *)
NegativeOffset(offset) == offset < 0

(* off_t offset = (off_t)off0 << 32 | off1; if (offset < 0) return -EINVAL *)
PositionedCall(t, name, ln, A, W) ==
    /\ th[t].pc = "idle"
    /\ \E a \in A, off0 \in W, off1 \in W :
        LET s0 == [a EXCEPT !.sc = name, !.off0 = off0, !.off1 = off1,
                            !.offset = Reassemble(off0, off1)]
        IN  IF NegativeOffset(s0.offset)
            THEN Enter(t, [s0 EXCEPT !.pc = "ret", !.res = -EINVAL, !.line = ln])
            ELSE DoIovCall(t, s0)

(* lines 40-42 *)
IovDesc(t) ==
    LET s == th[t] IN
    /\ s.pc = "iov_desc"
    /\ IF ~u_access_ok(s.argp, s.count, PROT_READ)
       THEN Return(t, [s EXCEPT !.nval = @ + 1, !.vres = <<FALSE>>], 41, -EFAULT)
       ELSE /\ th' = [th EXCEPT ![t] = StartBatch([s EXCEPT !.nval = @ + 1,
                                                           !.vres = <<TRUE>>,
                                                           !.ret = 0])]
            /\ UNCHANGED guard
    /\ UNCHANGED aspace

(* lines 49-50 *)
IovNull(t) ==
    LET s == th[t] IN
    /\ s.pc = "iov_null"
    /\ th' = [th EXCEPT ![t] = IF Cur(s).iov_base = 0 THEN NextEntry(s)
                               ELSE [s EXCEPT !.pc = "iov_check"]]
    /\ UNCHANGED <<guard, aspace>>

(* lines 51-52 *)
IovCheck(t) ==
    LET s == th[t]
        e == Cur(s)
    IN
    /\ s.pc = "iov_check"
    /\ IF ~u_access_ok(e.iov_base, e.iov_len, IovProt(s.sc))
       THEN Return(t, [s EXCEPT !.nval = @ + 1, !.failent = <<e>>], 52, -EFAULT)
       ELSE /\ th' = [th EXCEPT ![t] = [s EXCEPT !.nval = @ + 1,
                                                 !.chk = Append(@, e),
                                                 !.pc = "iov_copy"]]
            /\ UNCHANGED guard
    /\ UNCHANGED aspace

(* line 53 *)
IovCopy(t) ==
    LET s == th[t] IN
    /\ s.pc = "iov_copy"
    /\ th' = [th EXCEPT ![t] = [s EXCEPT !.iov = Append(@, Cur(s)),
                                         !.pc = "iov_len"]]
    /\ UNCHANGED <<guard, aspace>>

(* lines 54-55 *)
IovLen(t) ==
    LET s == th[t] IN
    /\ s.pc = "iov_len"
    /\ th' = [th EXCEPT ![t] = NextEntry([s EXCEPT !.l = @ + Cur(s).iov_len,
                                                   !.d = @ + 1])]
    /\ UNCHANGED <<guard, aspace>>

(***************************************************************************)
(* The transfer primitive (preadv, pwritev; fs.h, not part of the          *)
(* sources) returns an error, or the number of bytes transferred.  One     *)
(* that keeps its contract transfers at most the bytes of its batch.       *)
(***************************************************************************)
PrimResults(batch) == {-EIO} \cup 0..(SumLen(batch) + 1)

(* a do_iov that hands every batch the initial offset *)
OffAddNot(offset, r) == offset

(* offset += r in off_t *)
OffAdd(offset, r) == ToSigned(ToPattern(offset + r))

(* a do_iov that never advances uiov, reading the first batch again *)
AdvanceUiovNot(uiov, c) == uiov

(* uiov += c *)
AdvanceUiov(uiov, c) == uiov + c

(* a do_iov that returns every error of the primitive *)
FnErrorAlways(ret, r) == r

(* lines 61-63: if (ret) return ret; return r; *)
FnError(ret, r) == IF ret # 0 THEN ret ELSE r

(* lines 57-75; a failed assert(r == l) stops the kernel *)
IovFn(t) ==
    LET s == th[t] IN
    /\ s.pc = "iov_fn"
    /\ \E r \in PrimResults(s.iov) :
        LET s1 == [s EXCEPT !.nop = @ + 1, !.opres = r, !.fnarg = s.iov,
                            !.fnchk = s.chk, !.fnl = s.l, !.fnoff = s.offset,
                            !.fnret = s.ret,
                            !.over = @ \/ r > SumLen(s.iov),
                            !.full = @ /\ r = SumLen(s.iov)]
            s2 == [s1 EXCEPT !.ret = @ + r]
            s3 == [s2 EXCEPT !.count = @ - BatchCount(s),
                             !.uiov = AdvanceUiov(@, BatchCount(s)),
                             !.offset = IF @ >= 0 THEN OffAdd(@, r) ELSE @]
        IN  IF r = 0 THEN Return(t, s1, 59, s1.ret)
            ELSE IF r < 0
                 THEN Return(t, s1, IF s1.ret # 0 THEN 62 ELSE 63,
                             FnError(s1.ret, r))
            ELSE IF r < s.l THEN Return(t, s2, 67, s2.ret)
            ELSE IF r # s.l
                 THEN /\ th' = [th EXCEPT ![t] = [s2 EXCEPT !.pc = "assert",
                                                            !.line = 68]]
                      /\ UNCHANGED guard
            ELSE IF s3.count = 0 THEN Return(t, [s2 EXCEPT !.count = 0], 71, s2.ret)
            ELSE /\ th' = [th EXCEPT ![t] = StartBatch(s3)]
                 /\ UNCHANGED guard
    /\ UNCHANGED aspace

(***************************************************************************)
(* User code of the task runs while the call is in progress and can store  *)
(* to the descriptor array.  A store that do_iov can observe changes the   *)
(* entry it is reading, between two of its reads.                          *)
(***************************************************************************)
UserWrite(t) ==
    LET s == th[t] IN
    /\ s.pc \in {"iov_check", "iov_copy", "iov_len"}
    /\ s.writes < MaxUserWrites
    /\ \E e \in IovEntries \ {Cur(s)} :
          th' = [th EXCEPT ![t].umem[s.uiov + s.i + 1] = e,
                           ![t].writes = @ + 1]
    /\ UNCHANGED <<guard, aspace>>

(***************************************************************************)
(* Wrappers of several arguments, and wrappers that reject a call before   *)
(* they request the guard.  args holds the pointer arguments in the order  *)
(* of the parameter list.                                                  *)
(***************************************************************************)
ArgWrappers ==
    {"sc_renameat", "sc_stat", "sc_mount", "sc_umount2", "sc_statfs",
     "sc_fstatfs", "sc_pread", "sc_pwrite"}

(* sizeof(struct statfs), scaled down *)
SizeofStatfs == 1

(* a data pointer can be null, in region 1, or a kernel address *)
DataPtrs == {0, 1, NPtrs + 1}

(* a wrapper that lets every task mount *)
NotCapableNever(s) == FALSE

(* if (!task_capable(CAP_ADMIN)) *)
NotCapable(s) == ~s.cap

(* if (bufsiz != sizeof *stf) *)
BufsizMismatch(bufsiz) == bufsiz # SizeofStatfs

(* return DERR(e) before the guard is requested *)
Reject(t, s0, ln, e) ==
    Enter(t, [s0 EXCEPT !.pc = "ret", !.res = e, !.line = ln])

(* interruptible_lock l(u_access_lock); l.lock() *)
Proceed(t, s0) == Enter(t, [s0 EXCEPT !.pc = "lock"])

sc_renameat(t) ==
    /\ th[t].pc = "idle"
    /\ \E from \in ConcPtrs, to \in ConcPtrs :
        Proceed(t, [Idle EXCEPT !.sc = "sc_renameat", !.args = <<from, to>>])

sc_stat(t) ==
    /\ th[t].pc = "idle"
    /\ \E path \in ConcPtrs, st \in ConcPtrs :
        Proceed(t, [Idle EXCEPT !.sc = "sc_stat", !.args = <<path, st>>])

sc_mount(t) ==
    /\ th[t].pc = "idle"
    /\ \E cap \in BOOLEAN, dev \in ConcPtrs, dir \in ConcPtrs, fs \in ConcPtrs,
          data \in DataPtrs :
        LET s0 == [Idle EXCEPT !.sc = "sc_mount", !.cap = cap,
                               !.args = <<dev, dir, fs, data>>]
        IN  IF NotCapable(s0) THEN Reject(t, s0, 304, -EPERM)
            ELSE Proceed(t, s0)

sc_umount2(t) ==
    /\ th[t].pc = "idle"
    /\ \E cap \in BOOLEAN, dir \in ConcPtrs :
        LET s0 == [Idle EXCEPT !.sc = "sc_umount2", !.cap = cap,
                               !.args = <<dir>>]
        IN  IF NotCapable(s0) THEN Reject(t, s0, 423, -EPERM)
            ELSE Proceed(t, s0)

sc_statfs(t) ==
    /\ th[t].pc = "idle"
    /\ \E path \in ConcPtrs, stf \in ConcPtrs,
          bufsiz \in {SizeofStatfs, SizeofStatfs + 1} :
        LET s0 == [Idle EXCEPT !.sc = "sc_statfs", !.bufsiz = bufsiz,
                               !.args = <<path, stf>>]
        IN  IF BufsizMismatch(bufsiz) THEN Reject(t, s0, 392, -EINVAL)
            ELSE Proceed(t, s0)

sc_fstatfs(t) ==
    /\ th[t].pc = "idle"
    /\ \E stf \in ConcPtrs, bufsiz \in {SizeofStatfs, SizeofStatfs + 1} :
        LET s0 == [Idle EXCEPT !.sc = "sc_fstatfs", !.bufsiz = bufsiz,
                               !.args = <<stf>>]
        IN  IF BufsizMismatch(bufsiz) THEN Reject(t, s0, 192, -EINVAL)
            ELSE Proceed(t, s0)

sc_pread(t) ==
    /\ th[t].pc = "idle"
    /\ \E buf \in ConcPtrs, len \in 0..1, offset \in -1..0 :
        LET s0 == [Idle EXCEPT !.sc = "sc_pread", !.len = len,
                               !.offset = offset, !.args = <<buf>>]
        IN  IF NegativeOffset(offset) THEN Reject(t, s0, 466, -EINVAL)
            ELSE Proceed(t, s0)

sc_pwrite(t) ==
    /\ th[t].pc = "idle"
    /\ \E buf \in ConcPtrs, len \in 0..1, offset \in -1..0 :
        LET s0 == [Idle EXCEPT !.sc = "sc_pwrite", !.len = len,
                               !.offset = offset, !.args = <<buf>>]
        IN  IF NegativeOffset(offset) THEN Reject(t, s0, 479, -EINVAL)
            ELSE Proceed(t, s0)

(* the validations of the wrapper, in the order the code writes them *)
ArgChecks(s) ==
    LET a == s.args IN
    CASE s.sc = "sc_renameat" -> <<u_strcheck(a[1]), u_strcheck(a[2])>>
      [] s.sc = "sc_stat" ->
            <<u_strcheck(a[1]), u_access_ok(a[2], 1, PROT_WRITE)>>
      [] s.sc = "sc_mount" ->
            <<u_strcheck(a[1]), u_strcheck(a[2]), u_strcheck(a[3]),
              ~(a[4] # 0 /\ ~u_address(a[4]))>>
      [] s.sc = "sc_umount2" -> <<u_strcheck(a[1])>>
      [] s.sc = "sc_statfs" ->
            <<u_strcheck(a[1]), u_access_ok(a[2], 1, PROT_WRITE)>>
      [] s.sc = "sc_fstatfs" -> <<u_access_ok(a[1], 1, PROT_WRITE)>>
      [] s.sc = "sc_pread" -> <<u_access_ok(a[1], s.len, PROT_WRITE)>>
      [] s.sc = "sc_pwrite" -> <<u_access_ok(a[1], s.len, PROT_READ)>>

(* a wrapper that looks at its first validation only *)
AnyFalseFirst(c) == ~c[1]

(* if (!check1 || !check2 || ...) *)
AnyFalse(c) == \E k \in 1..Len(c) : ~c[k]

(* line of return DERR(-EFAULT) *)
ArgEfaultLine(sc) ==
    CASE sc = "sc_renameat" -> 361
      [] sc = "sc_stat" -> 384
      [] sc = "sc_mount" -> 310
      [] sc = "sc_umount2" -> 428
      [] sc = "sc_statfs" -> 398
      [] sc = "sc_fstatfs" -> 197
      [] sc = "sc_pread" -> 471
      [] sc = "sc_pwrite" -> 484

(* line of the return of the underlying operation's result *)
ArgOpLine(sc) ==
    CASE sc = "sc_renameat" -> 362
      [] sc = "sc_stat" -> 385
      [] sc = "sc_mount" -> 311
      [] sc = "sc_umount2" -> 429
      [] sc = "sc_statfs" -> 399
      [] sc = "sc_fstatfs" -> 198
      [] sc = "sc_pread" -> 472
      [] sc = "sc_pwrite" -> 485

ArgCheck(t) ==
    LET s == th[t]
        s1 == [s EXCEPT !.nval = @ + 1, !.vres = ArgChecks(s)]
    IN
    /\ s.pc = "check"
    /\ s.sc \in ArgWrappers
    /\ IF AnyFalse(ArgChecks(s))
       THEN Return(t, s1, ArgEfaultLine(s.sc), -EFAULT)
       ELSE /\ th' = [th EXCEPT ![t] = [s1 EXCEPT !.pc = "op", !.nop = @ + 1]]
            /\ UNCHANGED guard
    /\ UNCHANGED aspace

ArgOpReturn(t) ==
    LET s == th[t] IN
    /\ s.pc = "op"
    /\ s.sc \in ArgWrappers
    /\ \E r \in OpResults :
          Return(t, [s EXCEPT !.opres = r], ArgOpLine(s.sc), r)
    /\ UNCHANGED aspace

(***************************************************************************)
(* Specifications.                                                         *)
(*                                                                         *)
(* Spec: the threads of a task issue any of the wrappers and the address   *)
(* space operations concurrently.  The vectored calls pass the descriptor  *)
(* arrays of ConcVectors.                                                  *)
(*                                                                         *)
(* SpecIov: one thread issues the vectored calls with every descriptor     *)
(* array of at most IOV_MAX entries while user code overwrites entries.    *)
(*                                                                         *)
(* SpecWrappers: one thread issues every wrapper, those of several         *)
(* arguments included, while a second thread maps, unmaps and protects.    *)
(*                                                                         *)
(* SpecLive: the threads issue path, ioctl, fcntl and vectored calls under *)
(* fair scheduling and a fairly granted guard.                             *)
(***************************************************************************)
Init ==
    /\ guard = 0
    /\ aspace = [p \in 1..NPtrs |->
                    IF p = 1 THEN {PROT_READ, PROT_WRITE}
                    ELSE IF p = 2 THEN {PROT_READ} ELSE {}]
    /\ th = [t \in Threads |-> Idle]

ConcVectors == {<<>>, <<[iov_base |-> 1, iov_len |-> 1]>>}

ConcArgs == IovArgs(ConcVectors)

sc_readv(t) == StreamCall(t, "sc_readv", ConcArgs)

sc_writev(t) == StreamCall(t, "sc_writev", ConcArgs)

sc_preadv(t) == PositionedCall(t, "sc_preadv", 533, ConcArgs, ConcWords)

sc_pwritev(t) == PositionedCall(t, "sc_pwritev", 548, ConcArgs, ConcWords)

Next ==
    \E t \in Threads :
        \/ sc_chdir(t) \/ sc_openat(t) \/ PathCheck(t) \/ PathOpReturn(t)
        \/ sc_llseek(t) \/ LlseekCheck(t) \/ LlseekOpReturn(t)
        \/ sc_ioctl(t) \/ IoctlCheck(t) \/ IoctlOpReturn(t)
        \/ sc_fcntl(t) \/ FcntlCheck(t) \/ FcntlOpReturn(t)
        \/ sc_munmap(t) \/ sc_mprotect(t) \/ sc_mmap2(t) \/ MapOpReturn(t)
        \/ sc_readv(t) \/ sc_writev(t) \/ sc_preadv(t) \/ sc_pwritev(t)
        \/ IovDesc(t) \/ IovNull(t) \/ IovCheck(t) \/ IovCopy(t) \/ IovLen(t)
        \/ IovFn(t)
        \/ LockAcquire(t) \/ LockInterrupted(t) \/ Finish(t)

Spec == Init /\ [][Next]_vars

IovVectors == Vectors(IOV_MAX)

AllArgs == IovArgs(IovVectors)

sc_readv_all(t) == StreamCall(t, "sc_readv", AllArgs)

sc_writev_all(t) == StreamCall(t, "sc_writev", AllArgs)

sc_preadv_all(t) == PositionedCall(t, "sc_preadv", 533, AllArgs, OffWords)

sc_pwritev_all(t) == PositionedCall(t, "sc_pwritev", 548, AllArgs, OffWords)

NextIov ==
    \/ sc_readv_all(1) \/ sc_writev_all(1) \/ sc_preadv_all(1) \/ sc_pwritev_all(1)
    \/ LockAcquire(1) \/ LockInterrupted(1)
    \/ IovDesc(1) \/ IovNull(1) \/ IovCheck(1) \/ IovCopy(1) \/ IovLen(1)
    \/ IovFn(1) \/ UserWrite(1) \/ Finish(1)

SpecIov == Init /\ [][NextIov]_vars

(* the calling thread issues every wrapper, the other changes the map *)
NextWrappers ==
    \/ sc_renameat(1) \/ sc_stat(1) \/ sc_mount(1) \/ sc_umount2(1)
    \/ sc_statfs(1) \/ sc_fstatfs(1) \/ sc_pread(1) \/ sc_pwrite(1)
    \/ ArgCheck(1) \/ ArgOpReturn(1)
    \/ sc_chdir(1) \/ sc_openat(1) \/ PathCheck(1) \/ PathOpReturn(1)
    \/ sc_llseek(1) \/ LlseekCheck(1) \/ LlseekOpReturn(1)
    \/ sc_ioctl(1) \/ IoctlCheck(1) \/ IoctlOpReturn(1)
    \/ sc_fcntl(1) \/ FcntlCheck(1) \/ FcntlOpReturn(1)
    \/ sc_readv(1) \/ sc_writev(1) \/ sc_preadv(1) \/ sc_pwritev(1)
    \/ IovDesc(1) \/ IovNull(1) \/ IovCheck(1) \/ IovCopy(1) \/ IovLen(1)
    \/ IovFn(1)
    \/ sc_munmap(2) \/ sc_mprotect(2) \/ sc_mmap2(2) \/ MapOpReturn(2)
    \/ \E t \in Threads : LockAcquire(t) \/ LockInterrupted(t) \/ Finish(t)

SpecWrappers == Init /\ [][NextWrappers]_vars

(* sc_open: return sc_openat(AT_FDCWD, path, flags, mode) *)
sc_open(t) ==
    /\ th[t].pc = "idle"
    /\ \E path \in ConcPtrs :
        Enter(t, [Idle EXCEPT !.pc = "lock", !.sc = "sc_openat", !.argp = path])

(* a step of a system call that neither enters a wrapper nor waits for the
   guard: a validation, an underlying operation, a return to user mode *)
Step(t) ==
    \/ PathCheck(t) \/ PathOpReturn(t)
    \/ IoctlCheck(t) \/ IoctlOpReturn(t)
    \/ FcntlCheck(t) \/ FcntlOpReturn(t)
    \/ IovDesc(t) \/ IovNull(t) \/ IovCheck(t) \/ IovCopy(t) \/ IovLen(t)
    \/ IovFn(t)
    \/ Finish(t)

NextLive ==
    \E t \in Threads :
        \/ sc_chdir(t) \/ sc_open(t) \/ sc_ioctl(t) \/ sc_fcntl(t)
        \/ sc_readv(t)
        \/ Step(t)
        \/ LockAcquire(t) \/ LockInterrupted(t)

(* every started step and underlying operation completes, and a waiting
   thread is granted the guard if it is free again and again; nothing
   makes a thread enter a system call or a signal arrive *)
Fair == \A t \in Threads : WF_vars(Step(t)) /\ SF_vars(LockAcquire(t))

SpecLive == Init /\ [][NextLive]_vars /\ Fair

(***************************************************************************)
(* Properties.                                                             *)
(***************************************************************************)
Returned(t) == th[t].pc = "ret"

IovReturned(t) == Returned(t) /\ th[t].sc \in IovCalls

(* the descriptor array was not overwritten while the call read it, so
   umem is the vector the caller supplied *)
Stable(t) == th[t].writes = 0

(* C1: when a non-null entry fails validation (line 52) after earlier
   batches transferred ret > 0 bytes, do_iov returns ret, not an error. *)
C1_FaultAfterTransferReturnsCount ==
    \A t \in Threads :
        (IovReturned(t) /\ th[t].line = 52 /\ th[t].ret > 0)
            => th[t].res = th[t].ret

(* C2: when sc_ioctl or sc_fcntl has returned, on any path, the calling
   thread no longer holds the pin taken by u_access_begin. *)
C2_PinDroppedOnReturn ==
    \A t \in Threads :
        (Returned(t) /\ th[t].sc \in {"sc_ioctl", "sc_fcntl"}) => guard # t

(* C3: with a transfer primitive that never returns more than the batch it
   is given, the value do_iov returns never exceeds the sum of the lengths
   of the non-null entries of the supplied vector. *)
C3_ReturnWithinSupplied ==
    \A t \in Threads :
        (IovReturned(t) /\ ~th[t].over /\ Stable(t))
            => th[t].res <= SumNonNull(th[t].umem)

(* a call over two batches that returned every byte of its vector *)
C3_Witness ==
    \E t \in Threads :
        /\ IovReturned(t) /\ ~th[t].over /\ Stable(t)
        /\ th[t].nop = 2 /\ th[t].line = 71
        /\ th[t].res = SumNonNull(th[t].umem)
        /\ \E k \in 1..Len(th[t].umem) : th[t].umem[k].iov_base = 0

(* C4: every entry handed to the transfer primitive has a non-null pointer
   and is an entry that passed u_access_ok at line 51 earlier in the call;
   a null entry is never the one that line 52 faults on. *)
C4_PassedEntriesWereValidated ==
    \A t \in Threads :
        th[t].sc \in IovCalls =>
            /\ \A k \in 1..Len(th[t].fnarg) :
                  /\ th[t].fnarg[k].iov_base # 0
                  /\ th[t].fnarg[k] = th[t].fnchk[k]
            /\ (th[t].line = 52 => th[t].failent[1].iov_base # 0)

AllNull(v) == Len(v) > 0 /\ \A k \in 1..Len(v) : v[k].iov_base = 0

(* the call got the guard and its descriptor array passed line 40 *)
PastDesc(t) == th[t].nval > 0 /\ th[t].line # 41

(* C5: for a vector whose entries all have a null pointer do_iov returns
   0 and never invokes the transfer primitive. *)
C5_AllNullNeverReachesPrimitive ==
    \A t \in Threads :
        (IovReturned(t) /\ Stable(t) /\ PastDesc(t) /\ AllNull(th[t].umem))
            => (th[t].res = 0 /\ th[t].nop = 0)

(* every non-null entry of the supplied vector passes validation *)
AllValid(t) ==
    \A k \in 1..Len(th[t].umem) :
        th[t].umem[k].iov_base # 0 =>
            u_access_ok(th[t].umem[k].iov_base, th[t].umem[k].iov_len,
                        IovProt(th[t].sc))

(* C6: with every non-null entry valid and a primitive that transfers the
   whole of each batch (0 for an empty one), do_iov returns the sum of the
   lengths of the non-null entries wherever the null entries are placed. *)
C6_NullEntriesArePlaceholders ==
    \A t \in Threads :
        (IovReturned(t) /\ Stable(t) /\ PastDesc(t) /\ AllValid(t) /\ th[t].full)
            => th[t].res = SumNonNull(th[t].umem)

MapCalls == {"sc_munmap", "sc_mprotect", "sc_mmap2"}

(* C7: a wrapper whose underlying operation fails with error e returns e. *)
C7_OperationErrorUnchanged ==
    \A t \in Threads :
        (Returned(t) /\ th[t].sc \in PathWrappers \cup {"sc_llseek", "sc_ioctl", "sc_fcntl"}
            /\ th[t].nop > 0 /\ th[t].opres < 0)
            => th[t].res = th[t].opres

(* thread t is inside an underlying operation that was handed a user
   pointer, or inside do_iov with the guard requested and granted *)
UsesPointer(t) ==
    \/ th[t].pc = "op" /\ th[t].argp # 0 /\ th[t].sc \notin MapCalls
    \/ th[t].pc \in {"iov_desc", "iov_null", "iov_check", "iov_copy", "iov_len", "iov_fn"}

(* C8: no map, unmap or protect step changes the address space while a
   thread is between the validation of a user pointer and the end of the
   underlying operation that uses it, for every wrapper and request. *)
C8_NoMapChangeDuringUse ==
    [][(\E t \in Threads : UsesPointer(t)) => aspace' = aspace]_vars

(* C9: the offset reassembled from the argument words has off0 as its
   upper half and off1 as its lower half. *)
C9_OffsetIsHighLow ==
    \A t \in Threads :
        (\/ th[t].sc \in {"sc_preadv", "sc_pwritev"} /\ th[t].nop = 0
         \/ th[t].sc = "sc_llseek" /\ th[t].nop > 0)
            => ToPattern(th[t].offset) = th[t].off0 * WordMod + th[t].off1

(* C10: a wrapper whose request for the guard is interrupted returns the
   interruption error, the thread does not hold the guard afterwards, and
   neither a validation nor the underlying operation was executed. *)
C10_InterruptedCallDoesNothing ==
    \A t \in Threads :
        (Returned(t) /\ th[t].sc \notin MapCalls /\ th[t].line = EintrLine(th[t].sc))
            => /\ th[t].res = -EINTR
               /\ guard # t
               /\ th[t].nval = 0
               /\ th[t].nop = 0

(* C11: in every wrapper that validates its arguments, when a u_strcheck,
   u_access_ok or u_address check of an argument returns false the wrapper
   returns -EFAULT and the underlying operation is not invoked. *)
C11_FailedCheckReturnsEfault ==
    \A t \in Threads :
        (\E k \in 1..Len(th[t].vres) : ~th[t].vres[k])
            => (Returned(t) /\ th[t].res = -EFAULT /\ th[t].nop = 0)

(* sc_renameat returned -EFAULT for a valid first and an invalid second
   path without calling renameat *)
C11_Witness ==
    \E t \in Threads :
        /\ Returned(t) /\ th[t].sc = "sc_renameat"
        /\ th[t].vres = <<TRUE, FALSE>>
        /\ th[t].res = -EFAULT /\ th[t].nop = 0

(* the descriptor array, or a non-null entry among the first IovBatch
   entries of the supplied vector, does not pass validation *)
FirstBatchInvalid(t) ==
    LET s == th[t]
        v == s.umem
    IN  \/ ~u_access_ok(s.argp, Len(v), PROT_READ)
        \/ \E k \in 1..Min(Len(v), IovBatch) :
              /\ v[k].iov_base # 0
              /\ ~u_access_ok(v[k].iov_base, v[k].iov_len, IovProt(s.sc))

(* C12: when the descriptor array fails the read check, or a non-null
   entry of the first batch fails u_access_ok, do_iov returns -EFAULT and
   the transfer primitive is never invoked. *)
C12_FirstBatchFaultIsError ==
    \A t \in Threads :
        /\ (IovReturned(t) /\ Stable(t) /\ th[t].took /\ FirstBatchInvalid(t))
              => (th[t].res = -EFAULT /\ th[t].nop = 0)
        /\ (IovReturned(t) /\ th[t].failent # <<>> /\ th[t].uiov = 0)
              => (th[t].res = -EFAULT /\ th[t].nop = 0)

(* sc_readv of a valid entry followed, in the same batch, by an entry in a
   region that is not writable *)
C12_Witness ==
    \E t \in Threads :
        /\ IovReturned(t) /\ Stable(t) /\ th[t].sc = "sc_readv"
        /\ th[t].umem = <<[iov_base |-> 1, iov_len |-> 1],
                          [iov_base |-> 2, iov_len |-> 1]>>
        /\ th[t].line = 52 /\ th[t].res = -EFAULT /\ th[t].nop = 0

(* C13: when the primitive returns a positive count smaller than the total
   length of the batch it was given, do_iov adds the count to the total
   and returns at once; no later batch is handed to the primitive. *)
C13_ShortTransferStops ==
    \A t \in Threads :
        (th[t].sc \in IovCalls /\ th[t].nop > 0
            /\ th[t].opres > 0 /\ th[t].opres < SumLen(th[t].fnarg))
            => (Returned(t) /\ th[t].res = th[t].fnret + th[t].opres)

(* C14: a primitive result of zero ends the call with the accumulated
   total; a negative result is returned as the error when the total is
   still zero and otherwise the total is returned; no further batch is
   attempted in either case. *)
C14_ZeroAndErrorResults ==
    \A t \in Threads :
        (th[t].sc \in IovCalls /\ th[t].nop > 0 /\ th[t].opres <= 0)
            => /\ Returned(t)
               /\ th[t].res = IF th[t].opres = 0 \/ th[t].fnret > 0
                              THEN th[t].fnret ELSE th[t].opres

(* the primitive failed in the second batch after the first transferred
   bytes, and the call returned the total *)
C14_Witness ==
    \E t \in Threads :
        /\ IovReturned(t) /\ th[t].nop = 2 /\ th[t].opres < 0
        /\ th[t].fnret > 0 /\ th[t].res = th[t].fnret /\ th[t].line = 62

(* C15: a count outside [0, IOV_MAX] passed to sc_readv, sc_writev,
   sc_preadv or sc_pwritev yields -EINVAL with nothing transferred, the
   guard never requested, the descriptor array neither validated nor read
   and the primitive never invoked. *)
C15_CountOutOfRangeIsEinval ==
    \A t \in Threads :
        (th[t].sc \in IovCalls /\ (th[t].count < 0 \/ th[t].count > IOV_MAX))
            => /\ Returned(t) /\ th[t].res = -EINVAL
               /\ ~th[t].took /\ th[t].nval = 0 /\ th[t].nop = 0
               /\ th[t].ret = 0 /\ th[t].iov = <<>>

(* sc_preadv with a valid offset and IOV_MAX + 1 descriptors *)
C15_Witness ==
    \E t \in Threads :
        /\ Returned(t) /\ th[t].sc = "sc_preadv" /\ th[t].offset >= 0
        /\ th[t].count = IOV_MAX + 1 /\ th[t].argp = 1
        /\ th[t].res = -EINVAL /\ th[t].line = 36

(* C16: a wrapper that takes the guard through the scoped
   interruptible_lock (the path and buffer wrappers and do_iov) has
   released it when it returns, with success, with -EFAULT from a
   validation or with an error of the underlying operation: the calling
   thread does not hold the guard. *)
C16_ScopedGuardReleased ==
    \A t \in Threads :
        (Returned(t) /\ th[t].took
            /\ th[t].sc \notin {"sc_ioctl", "sc_fcntl"} \cup MapCalls)
            => guard # t

(* sc_stat returned the error of stat with the guard released *)
C16_Witness ==
    \E t \in Threads :
        /\ Returned(t) /\ th[t].took /\ th[t].sc = "sc_stat"
        /\ th[t].nop = 1 /\ th[t].res = -EBADF /\ guard # t

(* C17: sc_pread, sc_pwrite, sc_preadv and sc_pwritev with a negative
   offset, and sc_statfs and sc_fstatfs with a bufsiz that is not the size
   of the structure, return -EINVAL without requesting the guard, without
   validating a buffer and without invoking the underlying operation,
   whatever the other arguments are. *)
C17_EarlyEinval ==
    \A t \in Threads :
        (\/ /\ th[t].sc \in {"sc_pread", "sc_pwrite", "sc_preadv", "sc_pwritev"}
            /\ th[t].offset < 0
         \/ /\ th[t].sc \in {"sc_statfs", "sc_fstatfs"}
            /\ th[t].bufsiz # SizeofStatfs)
            => /\ Returned(t) /\ th[t].res = -EINVAL
               /\ ~th[t].took /\ th[t].nval = 0 /\ th[t].nop = 0
               /\ th[t].vres = <<>>

(* sc_pread with a negative offset and a null buffer *)
C17_Witness ==
    \E t \in Threads :
        /\ Returned(t) /\ th[t].sc = "sc_pread" /\ th[t].offset < 0
        /\ th[t].args = <<0>> /\ th[t].len = 1
        /\ th[t].res = -EINVAL /\ th[t].line = 466

(* C18: sc_mount and sc_umount2 called by a task without the
   administrative capability return -EPERM before the guard is requested
   and before any argument is validated, also when the pointer arguments
   are invalid; mount and umount2 are not invoked. *)
C18_NoCapabilityIsEperm ==
    \A t \in Threads :
        (th[t].sc \in {"sc_mount", "sc_umount2"} /\ ~th[t].cap)
            => /\ Returned(t) /\ th[t].res = -EPERM
               /\ ~th[t].took /\ th[t].nval = 0 /\ th[t].nop = 0
               /\ th[t].vres = <<>>

(* sc_mount without the capability, with null paths and a kernel address
   as data *)
C18_Witness ==
    \E t \in Threads :
        /\ Returned(t) /\ th[t].sc = "sc_mount" /\ ~th[t].cap
        /\ th[t].args = <<0, 0, 0, NPtrs + 1>>
        /\ th[t].res = -EPERM /\ th[t].line = 304

(* C19: the entries do_iov hands to the primitive are a snapshot: each
   (pointer, length) passed, and each length counted into the requested
   total l, is the value that passed u_access_ok, also when user code
   overwrites the descriptor array during the call. *)
C19_StableSnapshot ==
    \A t \in Threads :
        (th[t].sc \in IovCalls /\ th[t].nop > 0)
            => /\ th[t].fnarg = th[t].fnchk
               /\ th[t].fnl = SumLen(th[t].fnchk)

(* the offset the wrapper hands to do_iov *)
InitialOffset(t) ==
    IF th[t].sc \in {"sc_readv", "sc_writev"} THEN -1
    ELSE Reassemble(th[t].off0, th[t].off1)

(* the non-null entries of the n-th batch of vector v *)
BatchOf(v, n) ==
    SelectSeq(SubSeq(v, (n - 1) * IovBatch + 1, Min(n * IovBatch, Len(v))),
              LAMBDA e : e.iov_base # 0)

(* C20: with a non-negative initial offset the offset handed to the
   primitive for a batch is the initial offset plus the bytes transferred
   by the batches before it; with the negative sentinel of sc_readv and
   sc_writev every invocation receives the sentinel; the batches are
   handed over in the order of the vector. *)
C20_OffsetAdvancesByTransferred ==
    \A t \in Threads :
        (th[t].sc \in IovCalls /\ th[t].nop > 0)
            => /\ th[t].fnoff = IF InitialOffset(t) >= 0
                                THEN InitialOffset(t) + th[t].fnret
                                ELSE InitialOffset(t)
               /\ Stable(t) => th[t].fnarg = BatchOf(th[t].umem, th[t].nop)

(* the second batch of sc_preadv, after a first batch that transferred *)
C20_Witness ==
    \E t \in Threads :
        /\ th[t].sc = "sc_preadv" /\ th[t].nop = 2 /\ Stable(t)
        /\ th[t].fnret > 0 /\ th[t].fnarg # <<>>
        /\ th[t].fnoff = InitialOffset(t) + th[t].fnret

(* max(1, ceil(n / IovBatch)) *)
MaxInvocations(n) ==
    IF n = 0 THEN 1 ELSE (n + IovBatch - 1) \div IovBatch

(* C21: for a count in [0, IOV_MAX] and a primitive that returns at most
   the total length of the batch it is given, every invocation of the
   primitive receives at most iov.size() entries, the primitive is invoked
   at most max(1, ceil(count / iov.size())) times, and assert(r == l)
   holds whenever it is reached. *)
C21_BoundedBatchesAndAssert ==
    \A t \in Threads :
        (th[t].sc \in IovCalls /\ ~th[t].over)
            => /\ Len(th[t].fnarg) <= IovBatch
               /\ th[t].nop <= MaxInvocations(Len(th[t].umem))
               /\ th[t].pc # "assert"

(* a primitive that returned more than its batch made assert(r == l) fail
   and the kernel stop *)
Stopped == \E u \in Threads : th[u].pc = "assert"

(* C22: with fair scheduling and a fairly granted guard, no completed
   system call leaves the guard or pin held, no wrapper requests the guard
   while its thread holds it, and every thread that waits for the guard
   eventually is granted it or returns the interruption error. *)
C22_GuardEventuallyGranted ==
    /\ [](\A t \in Threads : Returned(t) => guard # t)
    /\ [](\A t \in Threads : th[t].pc = "lock" => guard # t)
    /\ \A t \in Threads :
          (th[t].pc = "lock") ~> (th[t].pc # "lock" \/ Stopped)

====
